---- MODULE Spec2Model ----
\* Model of the reactive data pipeline of reporting/dashboard.py:
\* the two lru_cache'd loaders (load_ticker, get_data), the module-level
\* widgets (ticker1, ticker2, stats, source, source_static, plot titles) and
\* the callbacks ticker1_change, ticker2_change, update, update_stats,
\* selection_change and app.
EXTENDS Integers, Sequences, FiniteSets, TLC

VARIABLES
    daily,          \* DATA_DIR: ticker -> file table_<ticker>.csv, rows <<date, close>>
    ticker1,        \* Select widget: [value, options]
    ticker2,        \* Select widget: [value, options]
    stats,          \* PreText widget: stats.text
    source,         \* ColumnDataSource: source.data
    source_static,  \* ColumnDataSource: source_static.data
    selected,       \* source.selected.indices
    titles,         \* corr.title.text, ts1.title.text, ts2.title.text
    load_cache,     \* lru_cache of load_ticker: ticker -> frame
    data_cache,     \* lru_cache of get_data: <<t1, t2>> -> frame
    docs,           \* documents (sessions) app(doc) has been called for
    last            \* the handler that ran last: [op, doc, err, built, joined, read]

vars == <<daily, ticker1, ticker2, stats, source, source_static, selected,
          titles, load_cache, data_cache, docs, last>>

-----------------------------------------------------------------------------
\* Bounds of the model

\* selection events carry row positions 0 .. MaxPos-1
MaxPos == 3
\* number of documents (sessions) the server may open
MaxDocs == 2
\* with several documents, selection events carry positions 0 .. MaxDocPos-1
MaxDocPos == 1
\* generated files have their dates in 1 .. MaxDate
MaxDate == 3
\* generated files have their closing values in 1 .. MaxClose
MaxClose == 2

-----------------------------------------------------------------------------
\* Program constants

DEFAULT_TICKERS == <<"AAPL", "GOOG", "INTC", "BRCM", "YHOO">>

\* functools.lru_cache() default maxsize
LruMaxSize == 128

Universe == {DEFAULT_TICKERS[i] : i \in DOMAIN DEFAULT_TICKERS}

\* a cell of a frame is <<v>> for the number v and <<>> for NaN
NaN == <<>>
Num(v) == <<v>>
\* a file of DATA_DIR: [exists, rows]; a file that does not exist has no rows
NoFile == [exists |-> FALSE, rows |-> <<>>]
File(rows) == [exists |-> TRUE, rows |-> rows]
OK == "ok"

-----------------------------------------------------------------------------
\* Arithmetic helpers

Abs(x) == IF x < 0 THEN -x ELSE x

RECURSIVE GCD(_, _)
GCD(a, b) == IF b = 0 THEN a ELSE GCD(b, a % b)

\* the rational a/b (b > 0) in lowest terms
Frac(a, b) ==
    LET g == GCD(Abs(a), b)
    IN  IF g = 0 THEN <<0, 1>> ELSE <<a \div g, b \div g>>

RECURSIVE SumSeq(_)
SumSeq(s) == IF s = <<>> THEN 0 ELSE Head(s) + SumSeq(Tail(s))

RECURSIVE SortedSeq(_)
\* the elements of the finite set of integers S in ascending order
SortedSeq(S) ==
    IF S = {} THEN <<>>
    ELSE LET m == CHOOSE x \in S : \A y \in S : x <= y
         IN  <<m>> \o SortedSeq(S \ {m})

RECURSIVE Insert(_, _)
Insert(x, s) ==
    IF s = <<>> THEN <<x>>
    ELSE IF x <= Head(s) THEN <<x>> \o s
    ELSE <<Head(s)>> \o Insert(x, Tail(s))

RECURSIVE SortValues(_)
\* a sequence of integers sorted ascending, duplicates kept
SortValues(s) == IF s = <<>> THEN <<>> ELSE Insert(Head(s), SortValues(Tail(s)))

-----------------------------------------------------------------------------
\* nix(val, lst)

nix_same(val, lst) == SelectSeq(lst, LAMBDA x : x = val)

nix(val, lst) == SelectSeq(lst, LAMBDA x : x /= val)

Elems(lst) == {lst[i] : i \in DOMAIN lst}

-----------------------------------------------------------------------------
\* load_ticker(ticker): the body run on a cache miss.
\* pd.read_csv raises FileNotFoundError when the file is absent and
\* EmptyDataError when it has no rows.

ReadCsvError(file) ==
    IF ~file.exists THEN "FileNotFoundError"
    ELSE IF file.rows = <<>> THEN "EmptyDataError"
    ELSE OK

TickerFrame_negated(file) ==
    [i \in 1..Len(file.rows) |->
        [date |-> file.rows[i][1],
         c    |-> Num(file.rows[i][2]),
         ret  |-> IF i = 1 THEN NaN
                  ELSE Num(file.rows[i-1][2] - file.rows[i][2])]]

\* DataFrame({ticker: data.c, ticker+'_returns': data.c.diff()}) indexed by date
TickerFrame(file) ==
    [i \in 1..Len(file.rows) |->
        [date |-> file.rows[i][1],
         c    |-> Num(file.rows[i][2]),
         ret  |-> IF i = 1 THEN NaN
                  ELSE Num(file.rows[i][2] - file.rows[i-1][2])]]

\* the body of load_ticker, run on a cache miss: the result is stored unless
\* read_csv raises.
\* Result [err, df, lc, read], read = the tickers read_csv was called for.
load_ticker_body(ticker, lc) ==
    LET e == ReadCsvError(daily[ticker])
    IN  IF e /= OK
        THEN [err |-> e, df |-> <<>>, lc |-> lc, read |-> {ticker}]
        ELSE LET df == TickerFrame(daily[ticker])
             IN  [err |-> OK, df |-> df,
                  lc  |-> [k \in DOMAIN lc \cup {ticker} |->
                             IF k = ticker THEN df ELSE lc[k]],
                  read |-> {ticker}]

load_ticker_uncached(ticker, lc) == load_ticker_body(ticker, lc)

load_ticker_empty(ticker, lc) ==
    IF ticker \in DOMAIN lc
    THEN [err |-> OK, df |-> lc[ticker], lc |-> lc, read |-> {}]
    ELSE [err |-> OK, df |-> TickerFrame(daily[ticker]),
          lc  |-> [k \in DOMAIN lc \cup {ticker} |->
                     IF k = ticker THEN TickerFrame(daily[ticker]) ELSE lc[k]],
          read |-> {ticker}]

\* load_ticker under lru_cache, lc = the cache: a hit returns the stored frame
load_ticker(ticker, lc) ==
    IF ticker \in DOMAIN lc
    THEN [err |-> OK, df |-> lc[ticker], lc |-> lc, read |-> {}]
    ELSE load_ticker_body(ticker, lc)

-----------------------------------------------------------------------------
\* get_data(t1, t2): the body run on a cache miss.

Dates(df) == {df[i].date : i \in DOMAIN df}

\* value of column col at date d, NaN when the frame has no such date
At(df, d, col) ==
    IF d \in Dates(df)
    THEN (df[CHOOSE i \in DOMAIN df : df[i].date = d])[col]
    ELSE NaN

Concat_descending(df1, df2) ==
    LET asc == SortedSeq(Dates(df1) \cup Dates(df2))
        idx == [i \in 1..Len(asc) |-> asc[Len(asc) + 1 - i]]
    IN  [i \in 1..Len(idx) |->
            [date |-> idx[i],
             a    |-> At(df1, idx[i], "c"),
             aret |-> At(df1, idx[i], "ret"),
             b    |-> At(df2, idx[i], "c"),
             bret |-> At(df2, idx[i], "ret")]]

\* pd.concat([df1, df2], axis=1): outer join on the date index
Concat(df1, df2) ==
    LET idx == SortedSeq(Dates(df1) \cup Dates(df2))
    IN  [i \in 1..Len(idx) |->
            [date |-> idx[i],
             a    |-> At(df1, idx[i], "c"),
             aret |-> At(df1, idx[i], "ret"),
             b    |-> At(df2, idx[i], "c"),
             bret |-> At(df2, idx[i], "ret")]]

\* data.dropna(): rows with any NaN are dropped
Dropna(data) ==
    SelectSeq(data, LAMBDA r : r.a /= NaN /\ r.aret /= NaN
                               /\ r.b /= NaN /\ r.bret /= NaN)

JoinFrame_copy_paste(t1, t2, df1, df2) ==
    LET data == Dropna(Concat(df1, df2))
    IN  [names |-> <<t1, t2>>,
         rows  |-> [i \in 1..Len(data) |->
                      [date |-> data[i].date,
                       t1 |-> data[i].a[1], t2 |-> data[i].b[1],
                       t1_returns |-> data[i].aret[1],
                       t2_returns |-> data[i].aret[1]]]]

\* the joined frame: names are the labels of the per-ticker columns, rows
\* carry the aliases t1, t2, t1_returns, t2_returns (equal to the columns
\* labelled t1, t2, t1+'_returns', t2+'_returns')
JoinFrame(t1, t2, df1, df2) ==
    LET data == Dropna(Concat(df1, df2))
    IN  [names |-> <<t1, t2>>,
         rows  |-> [i \in 1..Len(data) |->
                      [date |-> data[i].date,
                       t1 |-> data[i].a[1], t2 |-> data[i].b[1],
                       t1_returns |-> data[i].aret[1],
                       t2_returns |-> data[i].bret[1]]]]

NoFrame == [names |-> <<>>, rows |-> <<>>]

\* the body of get_data, run on a cache miss, st = [lc |-> load_cache,
\* dc |-> data_cache]: the result is stored unless the body raises.
\* Result [err, df, lc, dc, read, joined], joined = pd.concat was run.
\* With t1 = t2 the concatenated frame has duplicate column labels and
\* data['t1'] = data[t1] raises ValueError.
get_data_body(t1, t2, st) ==
    LET r1 == load_ticker(t1, st.lc)
    IN  IF r1.err /= OK
        THEN [err |-> r1.err, df |-> NoFrame, lc |-> r1.lc, dc |-> st.dc,
              read |-> r1.read, joined |-> FALSE]
        ELSE LET r2 == load_ticker(t2, r1.lc)
                 rd == r1.read \cup r2.read
             IN  IF r2.err /= OK
                 THEN [err |-> r2.err, df |-> NoFrame, lc |-> r2.lc,
                       dc |-> st.dc, read |-> rd, joined |-> FALSE]
                 ELSE IF t1 = t2
                 THEN [err |-> "ValueError", df |-> NoFrame, lc |-> r2.lc,
                       dc |-> st.dc, read |-> rd, joined |-> TRUE]
                 ELSE LET df == JoinFrame(t1, t2, r1.df, r2.df)
                      IN  [err |-> OK, df |-> df, lc |-> r2.lc,
                           dc |-> [k \in DOMAIN st.dc \cup {<<t1, t2>>} |->
                                     IF k = <<t1, t2>> THEN df ELSE st.dc[k]],
                           read |-> rd, joined |-> TRUE]

get_data_uncached(t1, t2, st) == get_data_body(t1, t2, st)

get_data_empty_join(t1, t2, st) ==
    LET r == IF <<t1, t2>> \in DOMAIN st.dc
             THEN [err |-> OK, df |-> st.dc[<<t1, t2>>], lc |-> st.lc,
                   dc |-> st.dc, read |-> {}, joined |-> FALSE]
             ELSE get_data_body(t1, t2, st)
    IN  IF r.err = OK /\ r.df.rows = <<>>
        THEN [r EXCEPT !.err = "EmptyJoin", !.df = NoFrame, !.dc = st.dc]
        ELSE r

\* get_data under lru_cache: a hit returns the stored frame
get_data(t1, t2, st) ==
    IF <<t1, t2>> \in DOMAIN st.dc
    THEN [err |-> OK, df |-> st.dc[<<t1, t2>>], lc |-> st.lc, dc |-> st.dc,
          read |-> {}, joined |-> FALSE]
    ELSE get_data_body(t1, t2, st)

-----------------------------------------------------------------------------
\* DataFrame.describe() and str()

\* q-th quartile (q = 1, 2, 3) of the ascending sequence s, by linear
\* interpolation between the two nearest ranks
Quartile(s, q) ==
    LET pos == (Len(s) - 1) * q
        i   == (pos \div 4) + 1
        f   == pos % 4
    IN  IF f = 0 THEN Frac(s[i], 1)
        ELSE Frac(4 * s[i] + f * (s[i+1] - s[i]), 4)

\* describe() of one numeric column: every entry but count is a rational
\* <<num, den>> or NaN; std is given by its square, the sample variance
Summary(xs) ==
    LET n  == Len(xs)
        s  == SortValues(xs)
        S  == SumSeq(xs)
        SS == SumSeq([i \in 1..n |-> xs[i] * xs[i]])
    IN  [count |-> n,
         mean  |-> IF n = 0 THEN NaN ELSE Frac(S, n),
         std2  |-> IF n <= 1 THEN NaN ELSE Frac(n * SS - S * S, n * (n - 1)),
         min   |-> IF n = 0 THEN NaN ELSE Frac(s[1], 1),
         q25   |-> IF n = 0 THEN NaN ELSE Quartile(s, 1),
         q50   |-> IF n = 0 THEN NaN ELSE Quartile(s, 2),
         q75   |-> IF n = 0 THEN NaN ELSE Quartile(s, 3),
         max   |-> IF n = 0 THEN NaN ELSE Frac(s[n], 1)]

\* column labels: <<ticker, "">> is the label ticker, <<ticker, "_returns">>
\* the label ticker+'_returns'
Label(ticker, suffix) == <<ticker, suffix>>

\* data[label] for a frame built by get_data
Column(df, label) ==
    [i \in 1..Len(df.rows) |->
        IF label = Label(df.names[1], "") THEN df.rows[i].t1
        ELSE IF label = Label(df.names[2], "") THEN df.rows[i].t2
        ELSE IF label = Label(df.names[1], "_returns") THEN df.rows[i].t1_returns
        ELSE df.rows[i].t2_returns]

\* str(data[labels].describe()): the text shows the labels in the order
\* given and the summary of each column
Describe(df, labels) ==
    [i \in 1..Len(labels) |->
        [label |-> labels[i], summary |-> Summary(Column(df, labels[i]))]]

\* update_stats(data, t1, t2): the new stats.text
update_stats(data, t1, t2) ==
    Describe(data, <<Label(t1, ""), Label(t2, ""),
                     Label(t1, "_returns"), Label(t2, "_returns")>>)

-----------------------------------------------------------------------------
\* data.iloc[selected, :]

\* positions are 0-based; a position outside the frame raises IndexError
IlocError(df, sel) ==
    IF \E p \in sel : p >= Len(df.rows) THEN "IndexError" ELSE OK

Iloc_head(df, sel) ==
    LET pos == SortedSeq(sel)
    IN  [names |-> df.names,
         rows  |-> [i \in 1..1 |-> df.rows[pos[i] + 1]]]

Iloc(df, sel) ==
    LET pos == SortedSeq(sel)
    IN  [names |-> df.names,
         rows  |-> [i \in 1..Len(pos) |-> df.rows[pos[i] + 1]]]

Selection_iloc(df, sel) == Iloc(df, sel)

\* the frame selection_change summarizes: "if selected: data = data.iloc[...]"
Selection(df, sel) == IF sel /= {} THEN Iloc(df, sel) ELSE df

\* df[['t1', 't2', 't1_returns', 't2_returns']] as assigned to source.data
Published(df) == df.rows

-----------------------------------------------------------------------------
\* Backing files the model is run with

Table1 ==
    [t \in Universe |->
        CASE t = "AAPL" -> File(<< <<1, 10>>, <<2, 12>>, <<3, 11>>,
                                   <<4, 15>>, <<5, 14>> >>)
          [] t = "GOOG" -> File(<< <<1, 20>>, <<2, 19>>, <<3, 22>> >>)
          [] t = "INTC" -> File(<< <<4, 5>>, <<5, 7>> >>)
          [] t = "BRCM" -> File(<<>>)
          [] OTHER      -> NoFile]

Tables == {Table1}

-----------------------------------------------------------------------------
\* State after the module has been imported

Init ==
    /\ daily \in Tables
    /\ ticker1 = [value |-> "AAPL", options |-> nix("GOOG", DEFAULT_TICKERS)]
    /\ ticker2 = [value |-> "GOOG", options |-> nix("AAPL", DEFAULT_TICKERS)]
    /\ stats = <<>>
    /\ source = <<>>
    /\ source_static = <<>>
    /\ selected = {}
    /\ titles = [corr |-> <<>>, ts1 |-> "", ts2 |-> ""]
    /\ load_cache = <<>>
    /\ data_cache = <<>>
    /\ docs = {}
    /\ last = [op |-> "import", doc |-> 0, err |-> OK,
               built |-> <<>>, joined |-> FALSE, read |-> {}]

CacheState == [lc |-> load_cache, dc |-> data_cache]

\* what the handler op, delivered in document d, leaves in last when its
\* call get_data(t1, t2) returned r and the handler ended with err
Ran(op, d, t1, t2, r, err) ==
    [op |-> op, doc |-> d, err |-> err, built |-> <<t1, t2>>,
     joined |-> r.joined, read |-> r.read]

update_one_source(op, d, t1, t2) ==
    LET r == get_data(t1, t2, CacheState)
    IN  /\ load_cache' = r.lc
        /\ data_cache' = r.dc
        /\ last' = Ran(op, d, t1, t2, r, r.err)
        /\ IF r.err /= OK
           THEN UNCHANGED <<source, source_static, stats, titles>>
           ELSE /\ source' = Published(r.df)
                /\ UNCHANGED source_static
                /\ stats' = update_stats(r.df, t1, t2)
                /\ titles' = [corr |-> <<t1, " returns vs. ", t2, " returns">>,
                              ts1 |-> t1, ts2 |-> t2]

update_titles_first(op, d, t1, t2) ==
    LET r == get_data(t1, t2, CacheState)
    IN  /\ load_cache' = r.lc
        /\ data_cache' = r.dc
        /\ last' = Ran(op, d, t1, t2, r, r.err)
        /\ titles' = [corr |-> <<t1, " returns vs. ", t2, " returns">>,
                      ts1 |-> t1, ts2 |-> t2]
        /\ IF r.err /= OK
           THEN UNCHANGED <<source, source_static, stats>>
           ELSE /\ source' = Published(r.df)
                /\ source_static' = Published(r.df)
                /\ stats' = update_stats(r.df, t1, t2)

\* update(): reads the widgets' values t1, t2
update(op, d, t1, t2) ==
    LET r == get_data(t1, t2, CacheState)
    IN  /\ load_cache' = r.lc
        /\ data_cache' = r.dc
        /\ last' = Ran(op, d, t1, t2, r, r.err)
        /\ IF r.err /= OK
           THEN UNCHANGED <<source, source_static, stats, titles>>
           ELSE /\ source' = Published(r.df)
                /\ source_static' = Published(r.df)
                /\ stats' = update_stats(r.df, t1, t2)
                /\ titles' = [corr |-> <<t1, " returns vs. ", t2, " returns">>,
                              ts1 |-> t1, ts2 |-> t2]

ticker1_change_keep_options(d, new) ==
    /\ d \in docs
    /\ new \in Elems(ticker1.options)
    /\ new /= ticker1.value
    /\ ticker1' = [ticker1 EXCEPT !.value = new]
    /\ UNCHANGED ticker2
    /\ update("ticker1_change", d, new, ticker2.value)
    /\ UNCHANGED <<daily, selected, docs>>

\* ticker1.on_change('value', ticker1_change): the widget offers its options
ticker1_change(d, new) ==
    /\ d \in docs
    /\ new \in Elems(ticker1.options)
    /\ new /= ticker1.value
    /\ ticker1' = [ticker1 EXCEPT !.value = new]
    /\ ticker2' = [ticker2 EXCEPT !.options = nix(new, DEFAULT_TICKERS)]
    /\ update("ticker1_change", d, new, ticker2.value)
    /\ UNCHANGED <<daily, selected, docs>>

ticker2_change(d, new) ==
    /\ d \in docs
    /\ new \in Elems(ticker2.options)
    /\ new /= ticker2.value
    /\ ticker2' = [ticker2 EXCEPT !.value = new]
    /\ ticker1' = [ticker1 EXCEPT !.options = nix(new, DEFAULT_TICKERS)]
    /\ update("ticker2_change", d, ticker1.value, new)
    /\ UNCHANGED <<daily, selected, docs>>

selection_change_whole_frame(d, new) ==
    /\ d \in docs
    /\ new /= selected
    /\ selected' = new
    /\ LET t1 == ticker1.value
           t2 == ticker2.value
           r  == get_data(t1, t2, CacheState)
       IN  /\ load_cache' = r.lc
           /\ data_cache' = r.dc
           /\ last' = Ran("selection_change", d, t1, t2, r, r.err)
           /\ IF r.err /= OK
              THEN UNCHANGED stats
              ELSE stats' = update_stats(r.df, t1, t2)
    /\ UNCHANGED <<daily, ticker1, ticker2, source, source_static, titles, docs>>

\* source.selected.on_change('indices', selection_change)
selection_change(d, new) ==
    /\ d \in docs
    /\ new /= selected
    /\ selected' = new
    /\ LET t1 == ticker1.value
           t2 == ticker2.value
           r  == get_data(t1, t2, CacheState)
           e  == IF r.err /= OK THEN r.err ELSE IlocError(r.df, new)
       IN  /\ load_cache' = r.lc
           /\ data_cache' = r.dc
           /\ last' = Ran("selection_change", d, t1, t2, r,
                          IF new /= {} THEN e ELSE r.err)
           /\ IF r.err /= OK \/ (new /= {} /\ e /= OK)
              THEN UNCHANGED stats
              ELSE stats' = update_stats(Selection(r.df, new), t1, t2)
    /\ UNCHANGED <<daily, ticker1, ticker2, source, source_static, titles, docs>>

\* app(doc): Server calls it once for every document it opens
app(d) ==
    /\ d \notin docs
    /\ update("app", d, ticker1.value, ticker2.value)
    /\ docs' = IF last'.err = OK THEN docs \cup {d} ELSE docs
    /\ UNCHANGED <<daily, ticker1, ticker2, selected>>

Positions == 0..(MaxPos - 1)

\* one document
Next ==
    \/ app(1)
    \/ \E new \in Universe : ticker1_change(1, new)
    \/ \E new \in Universe : ticker2_change(1, new)
    \/ \E new \in SUBSET Positions : selection_change(1, new)

Spec == Init /\ [][Next]_vars

\* several documents served by the one process (Server(..., num_procs=1))
NextDocs ==
    \/ \E d \in 1..MaxDocs : app(d)
    \/ \E d \in 1..MaxDocs, new \in Universe : ticker1_change(d, new)
    \/ \E d \in 1..MaxDocs, new \in Universe : ticker2_change(d, new)
    \/ \E d \in 1..MaxDocs, new \in SUBSET (0..(MaxDocPos - 1)) :
            selection_change(d, new)

SpecDocs == Init /\ [][NextDocs]_vars

-----------------------------------------------------------------------------
\* get_data called directly on generated files

\* every file with strictly increasing dates in 1..MaxDate and closing values
\* in 1..MaxClose, the empty file included
GeneratedFiles ==
    {File([i \in 1..Cardinality(D) |-> <<SortedSeq(D)[i], c[SortedSeq(D)[i]]>>]) :
        <<D, c>> \in {<<D, c>> \in (SUBSET (1..MaxDate)) \X [1..MaxDate -> 1..MaxClose] :
                        \A d \in (1..MaxDate) \ D : c[d] = 1}}

\* the tickers whose files are generated; the others have no file
Generated == {"AAPL", "GOOG"}

\* the files of the scenario A = {(d1,10),(d2,12),(d3,11)},
\* B = {(d1,20),(d2,19),(d3,22)}
ScenarioTable ==
    [t \in Universe |->
        CASE t = "AAPL" -> File(<< <<1, 10>>, <<2, 12>>, <<3, 11>> >>)
          [] t = "GOOG" -> File(<< <<1, 20>>, <<2, 19>>, <<3, 22>> >>)
          [] OTHER      -> NoFile]

GeneratedTables ==
    {[t \in Universe |-> IF t = "AAPL" THEN fs[1]
                         ELSE IF t = "GOOG" THEN fs[2] ELSE NoFile] :
        fs \in GeneratedFiles \X GeneratedFiles}

InitBuild ==
    /\ daily \in GeneratedTables \cup {ScenarioTable}
    /\ ticker1 = [value |-> "AAPL", options |-> nix("GOOG", DEFAULT_TICKERS)]
    /\ ticker2 = [value |-> "GOOG", options |-> nix("AAPL", DEFAULT_TICKERS)]
    /\ stats = <<>>
    /\ source = <<>>
    /\ source_static = <<>>
    /\ selected = {}
    /\ titles = [corr |-> <<>>, ts1 |-> "", ts2 |-> ""]
    /\ load_cache = <<>>
    /\ data_cache = <<>>
    /\ docs = {}
    /\ last = [op |-> "import", doc |-> 0, err |-> OK,
               built |-> <<>>, joined |-> FALSE, read |-> {}]

\* one call get_data(t1, t2)
build(t1, t2) ==
    LET r == get_data(t1, t2, CacheState)
    IN  /\ load_cache' = r.lc
        /\ data_cache' = r.dc
        /\ last' = Ran("get_data", 0, t1, t2, r, r.err)
        /\ UNCHANGED <<daily, ticker1, ticker2, stats, source, source_static,
                       selected, titles, docs>>

NextBuild == \E t1 \in Generated, t2 \in Generated : build(t1, t2)

SpecBuild == InitBuild /\ [][NextBuild]_vars

-----------------------------------------------------------------------------
\* Vocabulary of the properties

IdentifierChanged(l) == l.op \in {"ticker1_change", "ticker2_change"}
SelectionChanged(l) == l.op = "selection_change"
MissingSeries(l) == l.err \in {"FileNotFoundError", "EmptyDataError"}

\* the dataset the charts show, as a frame labelled by the current identifiers
CurrentDataset == [names |-> <<ticker1.value, ticker2.value>>, rows |-> source]

\* build(t1, t2) computed from the backing files, with no cache involved
Build(t1, t2) ==
    JoinFrame(t1, t2, TickerFrame(daily[t1]), TickerFrame(daily[t2]))

HasData(t) == ReadCsvError(daily[t]) = OK

NoDuplicates(lst) == Cardinality(Elems(lst)) = Len(lst)

-----------------------------------------------------------------------------
\* C1: after every identifier change (ticker1_change or ticker2_change followed
\* by update) the current selection is empty.
C1_SelectionResetOnIdentifierChange ==
    IdentifierChanged(last) => selected = {}

\* C2: after ticker1_change(X) the options of ticker2 are the universe minus
\* X (so they exclude X), and after ticker2_change(X) the options of ticker1
\* are the universe minus X.
C2_MutualExclusion ==
    /\ last.op = "ticker1_change" =>
         /\ ticker1.value \notin Elems(ticker2.options)
         /\ Elems(ticker2.options) = Universe \ {ticker1.value}
         /\ NoDuplicates(ticker2.options)
    /\ last.op = "ticker2_change" =>
         /\ ticker2.value \notin Elems(ticker1.options)
         /\ Elems(ticker1.options) = Universe \ {ticker2.value}
         /\ NoDuplicates(ticker1.options)

C2_Witness ==
    /\ last.op = "ticker1_change"
    /\ ticker1.value = "INTC"
    /\ ticker2.value = "AAPL"

\* C3: in every state reached from (AAPL, GOOG) by identifier changes drawn
\* from the changed slot's options and by selection changes, the two
\* identifiers differ, and get_data was never called with two equal ones.
C3_DistinctIdentifiers ==
    /\ ticker1.value /= ticker2.value
    /\ last.built /= <<>> => last.built[1] /= last.built[2]

C3_Witness ==
    /\ last.op = "ticker2_change"
    /\ ticker2.value = "AAPL"
    /\ ticker1.value = "GOOG"

\* C4: selection_change leaves both chart sources, both identifiers, both
\* option lists and the titles as they were; when it completes, every selected
\* position is a row of the current dataset and the statistics text is the
\* summary of the current dataset restricted to the new selection; when it
\* raises, the text is left as it was.
C4_SelectionChangeFrame ==
    [][SelectionChanged(last') =>
         /\ source' = source
         /\ source_static' = source_static
         /\ ticker1' = ticker1
         /\ ticker2' = ticker2
         /\ titles' = titles
         /\ last'.err = OK =>
              /\ selected' = {} \/ IlocError(CurrentDataset, selected') = OK
              /\ stats' = update_stats(Selection(CurrentDataset, selected'),
                                       ticker1.value, ticker2.value)
         /\ last'.err /= OK => stats' = stats]_vars

C4_Witness ==
    /\ SelectionChanged(last)
    /\ last.err = OK
    /\ selected = {1}
    /\ Len(source) = 2

\* C5: a selection with positions at or beyond the row count of the current
\* dataset is handled without error, and the statistics are those of the
\* in-range positions.
C5_OutOfRangeIgnored ==
    (/\ SelectionChanged(last)
     /\ <<ticker1.value, ticker2.value>> \in DOMAIN data_cache
     /\ \E p \in selected : p >= Len(source))
    => /\ last.err = OK
       /\ stats = update_stats(
                    Selection(CurrentDataset, {p \in selected : p < Len(source)}),
                    ticker1.value, ticker2.value)

Observed(d) == <<ticker1, ticker2, source, source_static, selected, stats>>

\* C7: an identifier change or selection change delivered in one document
\* never changes the identifiers, options, dataset, selection or statistics
\* that another open document observes.
C7_SessionsIsolated ==
    [][\A d \in docs :
         (d /= last'.doc /\ (IdentifierChanged(last') \/ SelectionChanged(last')))
         => Observed(d)' = Observed(d)]_vars

\* C8: a ticker whose file has data is read at most once: no step reads a
\* ticker that is already cached, a read of a file with data stores its frame,
\* every stored frame stays stored unchanged, and the cache never reaches the
\* size at which lru_cache evicts.
C8_ReadAtMostOnce ==
    [][/\ \A t \in DOMAIN load_cache :
            /\ t \notin last'.read
            /\ t \in DOMAIN load_cache'
            /\ load_cache'[t] = load_cache[t]
       /\ \A t \in last'.read :
            HasData(t) => /\ t \in DOMAIN load_cache'
                          /\ load_cache'[t] = TickerFrame(daily[t])
       /\ Cardinality(DOMAIN load_cache') < LruMaxSize]_vars

C8_Witness ==
    /\ IdentifierChanged(last)
    /\ last.err = OK
    /\ last.joined
    /\ last.read = {}

C10_PublishedAfterIdentifierChange ==
    (IdentifierChanged(last) /\ last.err = OK) =>
        LET df == Build(ticker1.value, ticker2.value)
        IN  /\ source = df.rows
            /\ source_static = df.rows
            /\ \A i \in DOMAIN source :
                 DOMAIN source[i] = {"date", "t1", "t2", "t1_returns", "t2_returns"}
            /\ stats = update_stats(df, ticker1.value, ticker2.value)

C10_Witness ==
    /\ last.op = "ticker2_change"
    /\ last.err = OK
    /\ ticker1.value = "AAPL"
    /\ ticker2.value = "INTC"
    /\ selected = {0, 1}
    /\ Len(source) = 1

-----------------------------------------------------------------------------
\* Vocabulary of the properties about the files

FileDates(t) == {daily[t].rows[i][1] : i \in DOMAIN daily[t].rows}

\* closing value of ticker t at date d
Close(t, d) ==
    daily[t].rows[CHOOSE i \in DOMAIN daily[t].rows : daily[t].rows[i][1] = d][2]

\* the dates of ticker t at which its return is defined: all but the first
ReturnDates(t) == {d \in FileDates(t) : \E e \in FileDates(t) : e < d}

\* the date of ticker t just before d
PreviousDate(t, d) ==
    CHOOSE e \in FileDates(t) : e < d /\ \A f \in FileDates(t) : f < d => f <= e

\* return of ticker t at date d: the difference against its previous date
Return(t, d) == Close(t, d) - Close(t, PreviousDate(t, d))

\* the rows the pair dataset of t1, t2 is to have
ExpectedRows(t1, t2) ==
    LET idx == SortedSeq(ReturnDates(t1) \cap ReturnDates(t2))
    IN  [i \in 1..Len(idx) |->
           [date |-> idx[i],
            t1 |-> Close(t1, idx[i]), t2 |-> Close(t2, idx[i]),
            t1_returns |-> Return(t1, idx[i]),
            t2_returns |-> Return(t2, idx[i])]]

\* x <= y for rationals <<num, den>> with den > 0
FracLe(x, y) == x[1] * y[2] <= y[1] * x[2]

-----------------------------------------------------------------------------
\* C11: a selection event with an empty selection publishes the statistics of
\* the whole dataset (their count is the dataset's row count), and the empty
\* selection filters the dataset to itself, same rows in the same order.
C11_EmptySelectionIsWholeDataset ==
    (SelectionChanged(last) /\ selected = {} /\ last.err = OK) =>
        /\ stats = update_stats(Build(ticker1.value, ticker2.value),
                                ticker1.value, ticker2.value)
        /\ \A i \in DOMAIN stats : stats[i].summary.count = Len(source)
        /\ Selection(CurrentDataset, {}).rows = source

C11_Witness ==
    /\ SelectionChanged(last)
    /\ selected = {}
    /\ last.err = OK
    /\ Len(source) = 2

\* C12: after a selection event with a non-empty selection of valid positions,
\* the count of every column is the size of the selection and the mean of
\* every column lies between that column's minimum and maximum over the whole
\* dataset.
C12_SubsetStats ==
    (SelectionChanged(last) /\ selected /= {} /\ last.err = OK) =>
        /\ Len(stats) = 4
        /\ \A i \in DOMAIN stats :
             LET full == Summary(Column(Build(ticker1.value, ticker2.value),
                                        stats[i].label))
             IN  /\ stats[i].summary.count = Cardinality(selected)
                 /\ FracLe(full.min, stats[i].summary.mean)
                 /\ FracLe(stats[i].summary.mean, full.max)

C12_Witness ==
    /\ SelectionChanged(last)
    /\ last.err = OK
    /\ selected = {0, 1}
    /\ Len(source) = 2

\* C13: get_data(t1, t2) returns exactly one row for each date at which both
\* series have a defined return, in date order, with each series' value and
\* its difference against the previous date of that series; for the scenario
\* files the rows are d2 (12, 19, 2, -1) and d3 (11, 22, -1, 3), count 2.
C13_BuildRows ==
    /\ \A p \in DOMAIN data_cache : data_cache[p].rows = ExpectedRows(p[1], p[2])
    /\ (daily = ScenarioTable /\ <<"AAPL", "GOOG">> \in DOMAIN data_cache) =>
         /\ data_cache[<<"AAPL", "GOOG">>].rows =
              << [date |-> 2, t1 |-> 12, t2 |-> 19,
                  t1_returns |-> 2, t2_returns |-> -1],
                 [date |-> 3, t1 |-> 11, t2 |-> 22,
                  t1_returns |-> -1, t2_returns |-> 3] >>
         /\ \A i \in 1..4 :
              update_stats(data_cache[<<"AAPL", "GOOG">>],
                           "AAPL", "GOOG")[i].summary.count = 2

C13_Witness ==
    /\ daily = ScenarioTable
    /\ last.op = "get_data"
    /\ last.joined
    /\ <<"AAPL", "GOOG">> \in DOMAIN data_cache

\* C14: every dataset get_data returns has strictly increasing dates and a
\* number in each of its four columns.
C14_SortedNoUndefined ==
    \A p \in DOMAIN data_cache :
        LET rows == data_cache[p].rows
        IN  /\ \A i \in DOMAIN rows : \A j \in DOMAIN rows :
                 i < j => rows[i].date < rows[j].date
            /\ \A i \in DOMAIN rows :
                 /\ DOMAIN rows[i] = {"date", "t1", "t2", "t1_returns", "t2_returns"}
                 /\ rows[i].t1 \in Int
                 /\ rows[i].t2 \in Int
                 /\ rows[i].t1_returns \in Int
                 /\ rows[i].t2_returns \in Int

C14_Witness ==
    /\ daily /= ScenarioTable
    /\ \E p \in DOMAIN data_cache : Len(data_cache[p].rows) >= 2
    /\ daily["AAPL"] /= daily["GOOG"]

\* C15: for distinct tickers A, B, get_data(A, B) and get_data(B, A) have the
\* same number of rows and the same dates, and row for row the t1 and
\* t1_returns of one are the t2 and t2_returns of the other.
C15_JoinSymmetry ==
    \A a \in Universe : \A b \in Universe :
        (a /= b /\ <<a, b>> \in DOMAIN data_cache /\ <<b, a>> \in DOMAIN data_cache) =>
            LET x == data_cache[<<a, b>>].rows
                y == data_cache[<<b, a>>].rows
            IN  /\ Len(x) = Len(y)
                /\ \A i \in DOMAIN x :
                     /\ x[i].date = y[i].date
                     /\ x[i].t1 = y[i].t2
                     /\ x[i].t2 = y[i].t1
                     /\ x[i].t1_returns = y[i].t2_returns
                     /\ x[i].t2_returns = y[i].t1_returns

C15_Witness ==
    /\ <<"AAPL", "GOOG">> \in DOMAIN data_cache
    /\ <<"GOOG", "AAPL">> \in DOMAIN data_cache
    /\ Len(data_cache[<<"AAPL", "GOOG">>].rows) >= 2
    /\ \E i \in DOMAIN data_cache[<<"AAPL", "GOOG">>].rows :
         data_cache[<<"AAPL", "GOOG">>].rows[i].t1_returns
           /= data_cache[<<"AAPL", "GOOG">>].rows[i].t2_returns

\* C16: an identifier change to two series with data but no common date
\* completes without an error and publishes an empty dataset to both chart
\* sources and a statistics text whose four counts are zero.
C16_EmptyJoinPublished ==
    (/\ IdentifierChanged(last)
     /\ HasData(ticker1.value) /\ HasData(ticker2.value)
     /\ FileDates(ticker1.value) \cap FileDates(ticker2.value) = {})
    => /\ last.err = OK
       /\ source = <<>>
       /\ source_static = <<>>
       /\ Len(stats) = 4
       /\ \A i \in DOMAIN stats : stats[i].summary.count = 0

C16_Witness ==
    /\ last.op = "ticker1_change"
    /\ ticker1.value = "INTC"
    /\ ticker2.value = "GOOG"
    /\ last.err = OK
    /\ last.joined
    /\ titles.ts1 = "INTC"

\* C17: once get_data(id1, id2) has been computed, a call get_data(id2, id1)
\* does not run the join again.
C17_UnorderedPairKey ==
    [][(<<last'.built[2], last'.built[1]>> \in DOMAIN data_cache)
         => ~last'.joined]_vars

\* C18: get_data called with two equal identifiers is rejected before it does
\* anything: it ends with an error, reads no file, runs no join and returns
\* no dataset.
C18_EqualIdentifiersRejected ==
    (last.op = "get_data" /\ last.built[1] = last.built[2]) =>
        /\ last.err /= OK
        /\ last.read = {}
        /\ ~last.joined
        /\ last.built \notin DOMAIN data_cache

\* C19: after every handler that completed, the statistics text is the summary
\* of the current dataset restricted to the current selection.
C19_StatsMatchSelection ==
    (last.op /= "import" /\ last.err = OK) =>
        /\ selected = {} \/ IlocError(CurrentDataset, selected) = OK
        /\ stats = update_stats(Selection(CurrentDataset, selected),
                                ticker1.value, ticker2.value)

\* C20 (as stated): in every state after the initial update, both chart
\* sources and the titles are those built from the current identifiers, and
\* each slot's options are the universe minus the other slot's identifier.
C20_PublishedMatchesIdentifiers ==
    docs /= {} =>
        /\ titles.ts1 = ticker1.value
        /\ titles.ts2 = ticker2.value
        /\ source = Build(ticker1.value, ticker2.value).rows
        /\ source_static = source
        /\ ticker1.options = nix(ticker2.value, DEFAULT_TICKERS)
        /\ ticker2.options = nix(ticker1.value, DEFAULT_TICKERS)

\* C20 (amended): in every state after the initial update, both chart sources
\* and the titles are those built from the identifier pair of the last
\* update() that completed, which is the current pair whenever both current
\* identifiers have data; each slot's options are the universe minus the
\* other slot's current identifier.
C20_PublishedMatchesLastCompletedUpdate ==
    docs /= {} =>
        /\ source = Build(titles.ts1, titles.ts2).rows
        /\ source_static = source
        /\ titles.corr = <<titles.ts1, " returns vs. ", titles.ts2, " returns">>
        /\ (HasData(ticker1.value) /\ HasData(ticker2.value)) =>
             /\ titles.ts1 = ticker1.value
             /\ titles.ts2 = ticker2.value
        /\ ticker1.options = nix(ticker2.value, DEFAULT_TICKERS)
        /\ ticker2.options = nix(ticker1.value, DEFAULT_TICKERS)

C20_Witness ==
    /\ last.op = "ticker2_change"
    /\ MissingSeries(last)
    /\ ticker2.value = "BRCM"
    /\ titles.ts2 = "INTC"
    /\ Len(source) = 1

====
